---- MODULE Spec2Model ----
(***************************************************************************)
(* Model of scripts/migrate_sqlite_to_postgres.py: one run of main(), from *)
(* the confirmation prompt to the end of the process.  The SQLite source   *)
(* and the PostgreSQL target are the environment: the rows a SELECT        *)
(* returns and whether the target accepts an INSERT are inputs.  Spec runs  *)
(* over sources whose references may dangle and follows keys and           *)
(* references only; FieldSpec runs over sources whose references resolve   *)
(* and follows the timestamp, role, status, position and flag columns too. *)
(***************************************************************************)
EXTENDS Integers, Sequences, FiniteSets, TLC

\* ---------------------------------------------------------------- bounds
\* rows in every source table
NumRows == 2
\* faults of one run: an insert the target rejects, a dangling or NULL
\* reference of a source row, a result set that is not in key order, an
\* exception that escapes a step, a column of a source row that holds another
\* value than the plain one
MaxFaults == 2

\* ------------------------------------------------------------- constants
\* Python None / SQL NULL (a legacy id of 0 is as falsy as None).
NULL == 0
\* id of the rows present in the target before the run
OldUuid == NULL + 1
\* Python None / SQL NULL in a text or timestamp column
None == "None"
\* a text in the format "%Y-%m-%d %H:%M:%S", and one that is not
GoodTime == "2024-05-01 10:00:00"
BadTime == "2024-05-01T10:00:00Z"

VARIABLES
    pc,          \* position in main() / run_migration()
    answer,      \* what input() returned at the confirmation prompt
    no_clear,    \* args.no_clear
    sqlite_conn, \* "unopened" | "open" | "closed"
    pg_conn,     \* "unopened" | "open" | "closed"
    cleared,     \* number of DELETE statements clear_postgres_tables has run
    step,        \* index in Steps of the running migrate_* method
    rows,        \* what is left of sqlite_cursor.fetchall() in the for loop
    pg,          \* target tables as the open transaction sees them
    pgc,         \* target tables as committed
    id_map,      \* the six *_id_map dictionaries, by table
    stats,       \* MigrationStats counters, by table
    errors,      \* MigrationStats.errors
    nextUuid,    \* the stream of uuid.uuid4() values
    exc,         \* the exception being propagated, "none" if none
    exit_code,   \* process exit status, -1 while running
    summary,     \* print_summary() has run
    log,         \* history: one record per source row processed
    faults       \* history: the faults of the run so far

vars == <<pc, answer, no_clear, sqlite_conn, pg_conn, cleared, step, rows, pg,
          pgc, id_map, stats, errors, nextUuid, exc, exit_code, summary, log,
          faults>>

\* ------------------------------------------------------------ the schema
\* run_migration: the ten steps in the order they are called
Steps == <<"users", "invite_codes", "patterns", "problems", "problem_patterns",
           "sessions", "session_problems", "attempts", "user_problem_stats",
           "user_pattern_stats">>

\* ClearTables, had the tables been listed in the order of the steps
ClearTables_Forward == <<"users", "invite_codes", "patterns", "problems",
                         "problem_patterns", "sessions", "session_problems",
                         "attempts", "user_problem_stats", "user_pattern_stats">>

\* clear_postgres_tables: the order of the DELETE statements
ClearTables == <<"user_pattern_stats", "user_problem_stats", "attempts",
                 "session_problems", "sessions", "problem_patterns", "problems",
                 "patterns", "invite_codes", "users">>

Tables == {Steps[i] : i \in 1..Len(Steps)}

\* the table of the step that is running
Current == Steps[step]

\* tables whose step generates a uuid per row and keeps an id map
IdTables == {"users", "invite_codes", "patterns", "problems", "sessions", "attempts"}

\* Required, had the attempts step also tested its session reference
Required_SessionToo(t) ==
    CASE t = "problem_patterns"   -> {"problem_id", "pattern_id"}
      [] t = "sessions"           -> {"user_id"}
      [] t = "session_problems"   -> {"session_id", "problem_id"}
      [] t = "attempts"           -> {"user_id", "problem_id", "session_id"}
      [] t = "user_problem_stats" -> {"user_id", "problem_id"}
      [] t = "user_pattern_stats" -> {"user_id", "pattern_id"}
      [] OTHER                    -> {}

\* Required, had the invite_codes step also tested its creator reference
Required_CreatorToo(t) ==
    CASE t = "invite_codes"       -> {"created_by_user_id"}
      [] t = "problem_patterns"   -> {"problem_id", "pattern_id"}
      [] t = "sessions"           -> {"user_id"}
      [] t = "session_problems"   -> {"session_id", "problem_id"}
      [] t = "attempts"           -> {"user_id", "problem_id"}
      [] t = "user_problem_stats" -> {"user_id", "problem_id"}
      [] t = "user_pattern_stats" -> {"user_id", "pattern_id"}
      [] OTHER                    -> {}

\* foreign-key columns a step resolves with <parent>_id_map.get and tests with
\* "if not ...: errors.append(...); continue"
Required(t) ==
    CASE t = "problem_patterns"   -> {"problem_id", "pattern_id"}
      [] t = "sessions"           -> {"user_id"}
      [] t = "session_problems"   -> {"session_id", "problem_id"}
      [] t = "attempts"           -> {"user_id", "problem_id"}
      [] t = "user_problem_stats" -> {"user_id", "problem_id"}
      [] t = "user_pattern_stats" -> {"user_id", "pattern_id"}
      [] OTHER                    -> {}

\* foreign-key columns a step resolves only "if row[col]:" and writes as None
\* otherwise
Optional(t) ==
    CASE t = "invite_codes" -> {"created_by_user_id"}
      [] t = "attempts"     -> {"session_id"}
      [] OTHER              -> {}

FKCols(t) == Required(t) \cup Optional(t)

\* the id map a foreign-key column is looked up in
Parent(c) ==
    CASE c = "user_id"            -> "users"
      [] c = "created_by_user_id" -> "users"
      [] c = "problem_id"         -> "problems"
      [] c = "pattern_id"         -> "patterns"
      [] c = "session_id"         -> "sessions"

\* the key columns of a row: its id and its references
KeyCols(t) == (IF t \in IdTables THEN {"id"} ELSE {}) \cup FKCols(t)

\* the columns a step converts with parse_sqlite_datetime
Timestamps(t) ==
    CASE t = "users"              -> {"created_at"}
      [] t = "invite_codes"       -> {"created_at", "used_at"}
      [] t = "patterns"           -> {"created_at"}
      [] t = "problems"           -> {"created_at"}
      [] t = "sessions"           -> {"timer_last_updated_at", "started_at",
                                      "completed_at", "created_at"}
      [] t = "attempts"           -> {"performed_at", "timer_last_updated_at",
                                      "started_at"}
      [] t = "user_problem_stats" -> {"last_attempt_at", "next_review_at"}
      [] OTHER                    -> {}

\* Defaulted, had no step written "or datetime.utcnow()"
Defaulted_None(t) == {}

\* the timestamp columns written as "parse_sqlite_datetime(...) or
\* datetime.utcnow()"
Defaulted(t) ==
    CASE t \in {"users", "invite_codes", "patterns", "problems", "sessions"}
                         -> {"created_at"}
      [] t = "attempts"  -> {"performed_at"}
      [] OTHER           -> {}

\* the other columns of a row that the model keeps
Scalars(t) ==
    Timestamps(t) \cup
    CASE t = "users"            -> {"role"}
      [] t = "attempts"         -> {"status"}
      [] t = "session_problems" -> {"order_index", "is_completed"}
      [] OTHER                  -> {}

\* the columns of a row that the model keeps
Cols(t) == KeyCols(t) \cup Scalars(t)

EmptyMap == [k \in {} |-> NULL]

\* dict.get(key): None when the key is absent
Get(m, k) == IF k \in DOMAIN m THEN m[k] ELSE NULL

\* the ORDER BY columns of a step's SELECT (<<>>: no ORDER BY)
OrderBy(t) ==
    CASE t \in IdTables         -> <<"id">>
      [] t = "session_problems" -> <<"session_id", "order_index">>
      [] OTHER                  -> <<>>

\* ----------------------------------------------------------- conversions
\* datetime.strptime(s, "%Y-%m-%d %H:%M:%S") on the texts above
strptime(s) == IF s = GoodTime THEN "datetime(2024, 5, 1, 10, 0)" ELSE "ValueError"

\* "not x" of Python on None and on a text
Falsy(x) == x \in {None, ""}

\* parse_sqlite_datetime: None for None, for "" and for what strptime refuses
parse_sqlite_datetime(dt_str) ==
    IF Falsy(dt_str) THEN None
    ELSE IF strptime(dt_str) = "ValueError" THEN None
    ELSE strptime(dt_str)

\* datetime.utcnow(): the time of the call, not a value of the source
utcnow == "datetime.utcnow()"

\* Or, had the default been applied to None only (as COALESCE would)
Or_NoneOnly(a, b) == IF a = None THEN b ELSE a

\* "a or b" of Python
Or(a, b) == IF Falsy(a) THEN b ELSE a

\* bool, had the column been read as text: bool("0") is True
bool_Text(x) == TRUE

\* bool(x) on an integer column
bool(x) == x # 0

\* the value a step passes to the INSERT for a column that is no reference
Convert(t, row, c) ==
    CASE c \in Defaulted(t)  -> Or(parse_sqlite_datetime(row[c]), utcnow)
      [] c \in Timestamps(t) \ Defaulted(t) -> parse_sqlite_datetime(row[c])
      [] c = "role"          -> Or(row[c], "user")
      [] c = "status"        -> Or(row[c], "completed")
      [] c = "order_index"   -> row[c]
      [] c = "is_completed"  -> bool(row[c])

\* ------------------------------------------------------------ the source
\* a legacy id that no row of the parent table has
Missing == NumRows + 1

\* the references of a row that are NULL or point to no parent row
OddRefs(t, r) == Cardinality({c \in FKCols(t) : r[c] \in {NULL, Missing}})

\* the rows a source table may hold: NumRows rows, the i-th with primary key i
\* (where the table has an id column) and with each reference either to the
\* i-th row of the parent table, to no row of it (SQLite does not enforce the
\* references) or, in an optional column, NULL
KeyRow(t, i) ==
    {r \in [KeyCols(t) -> {NULL, i, Missing}] :
        /\ "id" \in KeyCols(t) => r["id"] = i
        /\ \A c \in Required(t) : r[c] # NULL}

\* what the other columns of the i-th row hold unless said otherwise: a
\* timestamp in SQLite's format, a role, a status, the flag 0 and a position
\* in the session that falls as the row number rises
PlainScalar(c, i) ==
    CASE c = "role"         -> "admin"
      [] c = "status"       -> "abandoned"
      [] c = "order_index"  -> NumRows - i
      [] c = "is_completed" -> 0
      [] OTHER              -> GoodTime

PlainScalars(t, i) == [c \in Scalars(t) |-> PlainScalar(c, i)]

\* the other columns that the ORDER BY of the step's SELECT names
SortCols(t) == {c \in Scalars(t) : \E n \in DOMAIN OrderBy(t) : OrderBy(t)[n] = c}

\* of the other columns these rows carry the ones the SELECT orders by only
SourceRow(t, i) ==
    {r @@ [c \in SortCols(t) |-> PlainScalar(c, i)] : r \in KeyRow(t, i)}

RECURSIVE OddRows(_, _)
OddRows(S, t) ==
    IF S = {} THEN 0
    ELSE LET r == CHOOSE x \in S : TRUE
         IN  OddRefs(t, r) + OddRows(S \ {r}, t)

\* the tables of rows 1..n with at most k odd references in a row
RECURSIVE FirstRows(_, _, _)
FirstRows(t, n, k) ==
    IF n = 0 THEN {{}}
    ELSE {S \cup {r} : S \in FirstRows(t, n - 1, k),
                       r \in {x \in SourceRow(t, n) : OddRefs(t, x) <= k}}

\* rows without an id column are told apart by their composite key
SourceTables(t, k) ==
    {S \in FirstRows(t, NumRows, k) : Cardinality(S) = NumRows /\ OddRows(S, t) <= k}

\* lexicographic "a sorts before or with b" on the ORDER BY columns
RECURSIVE KeyLE(_, _, _)
KeyLE(a, b, cols) ==
    IF cols = <<>> THEN TRUE
    ELSE \/ a[Head(cols)] < b[Head(cols)]
         \/ a[Head(cols)] = b[Head(cols)] /\ KeyLE(a, b, Tail(cols))

\* the sequences fetchall() may return for a table holding the rows S: every
\* arrangement of S that respects the ORDER BY of the SELECT
FetchAll(S, t) ==
    {q \in [1..Cardinality(S) -> S] :
        /\ \A i, j \in DOMAIN q : i # j => q[i] # q[j]
        /\ \A i, j \in DOMAIN q : i < j => KeyLE(q[i], q[j], OrderBy(t))}

\* the key of a table: its id column, or its pair of references
PrimaryKey(t) ==
    CASE t \in IdTables           -> <<"id">>
      [] t = "problem_patterns"   -> <<"problem_id", "pattern_id">>
      [] t = "session_problems"   -> <<"session_id", "problem_id">>
      [] t = "user_problem_stats" -> <<"user_id", "problem_id">>
      [] t = "user_pattern_stats" -> <<"user_id", "pattern_id">>

InKeyOrder(q, t) == \A i, j \in DOMAIN q : i < j => KeyLE(q[i], q[j], PrimaryKey(t))

\* the faults of a result set: its odd references, and one more when the rows
\* do not come in key order
FetchFaults(q, t) ==
    OddRows({q[i] : i \in DOMAIN q}, t) + (IF InKeyOrder(q, t) THEN 0 ELSE 1)

\* ---------------------------------------------- the source, column by column
\* what a column that is no reference may hold in the i-th row of a table
ScalarValues(c, i) ==
    CASE c = "role"         -> {None, "", "admin"}
      [] c = "status"       -> {None, "", "abandoned"}
      [] c = "order_index"  -> 0..(NumRows - 1)
      [] c = "is_completed" -> {0, 1}
      [] OTHER              -> {None, "", BadTime, GoodTime}

\* the rows over the columns C of the i-th row of which exactly k differ from
\* the plain row
RECURSIVE FieldScalars(_, _, _)
FieldScalars(C, i, k) ==
    IF C = {} THEN IF k = 0 THEN {EmptyMap} ELSE {}
    ELSE LET c == CHOOSE x \in C : TRUE
         IN  {(c :> PlainScalar(c, i)) @@ s : s \in FieldScalars(C \ {c}, i, k)}
             \cup (IF k = 0 THEN {}
                   ELSE {(c :> v) @@ s : v \in ScalarValues(c, i) \ {PlainScalar(c, i)},
                                         s \in FieldScalars(C \ {c}, i, k - 1)})

\* the key columns of the i-th row of a table whose references all resolve:
\* it references the i-th row of each parent table
FieldKeyRow(t, i) == [c \in KeyCols(t) |-> i]

\* the i-th rows of a table with k odd columns; a session_problems row may
\* also belong to the first session, so that a session has several rows, and
\* this counts as one odd column
FieldRow(t, i, k) ==
    {FieldKeyRow(t, i) @@ s : s \in FieldScalars(Scalars(t), i, k)}
    \cup (IF t = "session_problems" /\ i > 1 /\ k > 0
          THEN {[FieldKeyRow(t, i) EXCEPT !["session_id"] = 1] @@ s :
                    s \in FieldScalars(Scalars(t), i, k - 1)}
          ELSE {})

\* the tables of rows 1..n with k odd columns, all of them in the last row
RECURSIVE FirstFieldRows(_, _, _)
FirstFieldRows(t, n, k) ==
    IF n = 0 THEN IF k = 0 THEN {{}} ELSE {}
    ELSE {S \cup {r} : S \in FirstFieldRows(t, n - 1, 0), r \in FieldRow(t, n, k)}

\* the rows of a table: patterns, which references nothing, holds one row
\* more than the others
FieldSize(t) == IF t = "patterns" THEN NumRows + 1 ELSE NumRows

FieldTables(t, k) == FirstFieldRows(t, FieldSize(t), k)

\* ------------------------------------------------------------ the target
\* the target before the run: one old row in every table, references intact
OldRow(t) ==
    [c \in Cols(t) |-> IF c \in KeyCols(t) THEN OldUuid
                       ELSE Convert(t, PlainScalars(t, 1), c)]

PreExisting == [t \in Tables |-> {OldRow(t)}]

\* ---------------------------------------------------------------- errors
\* what the "Missing ... mapping" message of a step names
MissingError(t, row) ==
    [table |-> t, kind |-> "missing",
     key |-> CASE t = "sessions"           -> <<row["id"]>>
               [] t = "attempts"           -> <<row["id"]>>
               [] t = "problem_patterns"   -> <<row["problem_id"], row["pattern_id"]>>
               [] t = "session_problems"   -> <<row["session_id"], row["problem_id"]>>
               [] t = "user_problem_stats" -> <<row["user_id"], row["problem_id"]>>
               [] t = "user_pattern_stats" -> <<row["user_id"], row["pattern_id"]>>
               [] OTHER                    -> <<>>]

\* what the message of an "except psycopg2.Error" handler names: only the
\* attempts step formats the legacy id, the others a name column or nothing
InsertError(t, row) ==
    [table |-> t, kind |-> "insert",
     key |-> IF t = "attempts" THEN <<row["id"]>> ELSE <<>>]

\* ------------------------------------------------------------------ main
Answers == {"Yes", "no", ""}

\* str.lower() on the answers above
Lower(s) == IF s = "Yes" THEN "yes" ELSE s

Init ==
    /\ pc = "confirm"
    /\ answer = ""
    /\ no_clear \in BOOLEAN
    /\ sqlite_conn = "unopened"
    /\ pg_conn = "unopened"
    /\ cleared = 0
    /\ step = 0
    /\ rows = <<>>
    /\ pg = PreExisting
    /\ pgc = PreExisting
    /\ id_map = [t \in IdTables |-> EmptyMap]
    /\ stats = [t \in Tables |-> 0]
    /\ errors = <<>>
    /\ nextUuid = OldUuid + 1
    /\ exc = "none"
    /\ exit_code = -1
    /\ summary = FALSE
    /\ log = <<>>
    /\ faults = 0

\* Confirm, had main gone on whatever the answer
Confirm_NoGate ==
    /\ pc = "confirm"
    /\ \E a \in Answers :
        /\ answer' = a
        /\ pc' = "connect_sqlite" /\ UNCHANGED exit_code
    /\ UNCHANGED <<no_clear, sqlite_conn, pg_conn, cleared, step, rows, pg, pgc,
                   id_map, stats, errors, nextUuid, exc, summary, log, faults>>

\* main: the confirmation prompt
Confirm ==
    /\ pc = "confirm"
    /\ \E a \in Answers :
        /\ answer' = a
        /\ IF Lower(a) # "yes"
             THEN pc' = "exit" /\ exit_code' = 0
             ELSE pc' = "connect_sqlite" /\ UNCHANGED exit_code
    /\ UNCHANGED <<no_clear, sqlite_conn, pg_conn, cleared, step, rows, pg, pgc,
                   id_map, stats, errors, nextUuid, exc, summary, log, faults>>

\* connect_sqlite, had its handler called sys.exit(0)
connect_sqlite_Exit0 ==
    /\ pc = "connect_sqlite"
    /\ \/ sqlite_conn' = "open" /\ pc' = "connect_postgres" /\ UNCHANGED exit_code
       \/ pc' = "exit" /\ exit_code' = 0 /\ UNCHANGED sqlite_conn
    /\ UNCHANGED <<answer, no_clear, pg_conn, cleared, step, rows, pg, pgc,
                   id_map, stats, errors, nextUuid, exc, summary, log, faults>>

\* connect_sqlite: the connection, or sys.exit(1)
connect_sqlite ==
    /\ pc = "connect_sqlite"
    /\ \/ sqlite_conn' = "open" /\ pc' = "connect_postgres" /\ UNCHANGED exit_code
       \/ pc' = "exit" /\ exit_code' = 1 /\ UNCHANGED sqlite_conn
    /\ UNCHANGED <<answer, no_clear, pg_conn, cleared, step, rows, pg, pgc,
                   id_map, stats, errors, nextUuid, exc, summary, log, faults>>

\* connect_postgres: the connection, or sys.exit(1)
connect_postgres ==
    /\ pc = "connect_postgres"
    /\ \/ pg_conn' = "open" /\ pc' = "clear" /\ UNCHANGED exit_code
       \/ pc' = "exit" /\ exit_code' = 1 /\ UNCHANGED pg_conn
    /\ UNCHANGED <<answer, no_clear, sqlite_conn, cleared, step, rows, pg, pgc,
                   id_map, stats, errors, nextUuid, exc, summary, log, faults>>

\* ClearDelete, had the connection been in autocommit mode
ClearDelete_Autocommit ==
    /\ pc = "clear"
    /\ cleared < Len(ClearTables)
    /\ pg' = [pg EXCEPT ![ClearTables[cleared + 1]] = {}]
    /\ pgc' = pg'
    /\ cleared' = cleared + 1
    /\ UNCHANGED <<pc, answer, no_clear, sqlite_conn, pg_conn, step, rows,
                   id_map, stats, errors, nextUuid, exc, exit_code, summary, log,
                   faults>>

\* clear_postgres_tables: one DELETE of the loop
ClearDelete ==
    /\ pc = "clear"
    /\ cleared < Len(ClearTables)
    /\ pg' = [pg EXCEPT ![ClearTables[cleared + 1]] = {}]
    /\ cleared' = cleared + 1
    /\ UNCHANGED <<pc, answer, no_clear, sqlite_conn, pg_conn, step, rows, pgc,
                   id_map, stats, errors, nextUuid, exc, exit_code, summary, log,
                   faults>>

\* clear_postgres_tables: the commit after the last DELETE
ClearCommit ==
    /\ pc = "clear"
    /\ cleared = Len(ClearTables)
    /\ pgc' = pg
    /\ step' = 1
    /\ pc' = "fetch"
    /\ UNCHANGED <<answer, no_clear, sqlite_conn, pg_conn, cleared, rows, pg,
                   id_map, stats, errors, nextUuid, exc, exit_code, summary, log,
                   faults>>

\* clear_postgres_tables: a DELETE or the commit raises psycopg2.Error; the
\* handler rolls back and re-raises, and so does "except Exception" of
\* run_migration
ClearFail ==
    /\ pc = "clear"
    /\ pg' = pgc
    /\ exc' = "clear"
    /\ pc' = "finally"
    /\ UNCHANGED <<answer, no_clear, sqlite_conn, pg_conn, cleared, step, rows,
                   pgc, id_map, stats, errors, nextUuid, exit_code, summary, log,
                   faults>>

\* migrate_*: the SELECT and fetchall() of the step
Fetch ==
    /\ pc = "fetch"
    /\ \E S \in SourceTables(Current, MaxFaults - faults) :
        \E q \in FetchAll(S, Current) :
            /\ faults + FetchFaults(q, Current) <= MaxFaults
            /\ faults' = faults + FetchFaults(q, Current)
            /\ rows' = q
    /\ pc' = "loop"
    /\ UNCHANGED <<answer, no_clear, sqlite_conn, pg_conn, cleared, step, pg, pgc,
                   id_map, stats, errors, nextUuid, exc, exit_code, summary, log>>

\* migrate_*: the SELECT and fetchall() of the step, over a source whose
\* references all resolve, whose other columns hold any value and whose
\* patterns table is one row longer
FetchFields ==
    /\ pc = "fetch"
    /\ \E k \in 0..(MaxFaults - faults) :
        \E S \in FieldTables(Current, k) :
            \E q \in FetchAll(S, Current) :
                /\ OrderBy(Current) = <<>> => InKeyOrder(q, Current)
                /\ faults' = faults + k
                /\ rows' = q
    /\ pc' = "loop"
    /\ UNCHANGED <<answer, no_clear, sqlite_conn, pg_conn, cleared, step, pg, pgc,
                   id_map, stats, errors, nextUuid, exc, exit_code, summary, log>>

\* generate_uuid, had it been called once and its value reused
generate_uuid_Once == OldUuid + 1

\* generate_uuid: uuid4 values are taken as never repeating
generate_uuid == nextUuid

\* the id maps after "new_id = generate_uuid(); self.<t>_id_map[old_id] = new_id"
\* at the top of the loop body (only the steps of IdTables have these lines)
Registered(t, row) ==
    IF t \in IdTables
      THEN [id_map EXCEPT ![t] = (row["id"] :> generate_uuid) @@ @]
      ELSE id_map

\* Resolve, had a step generated an id instead of looking the parent's up
Resolve_Fresh(t, row, c) ==
    IF c \in Required(t) \/ row[c] # NULL
      THEN IF row[c] \in DOMAIN Registered(t, row)[Parent(c)]
             THEN generate_uuid + 1
             ELSE NULL
      ELSE NULL

\* the value a step computes for a foreign-key column: <parent>_id_map.get(...),
\* for an optional column only "if row[col]:", None otherwise
Resolve(t, row, c) ==
    IF c \in Required(t) \/ row[c] # NULL
      THEN Get(Registered(t, row)[Parent(c)], row[c])
      ELSE NULL

\* Unresolved, had the test been "if not a and not b:"
Unresolved_All(t, row) ==
    /\ Required(t) # {}
    /\ \A c \in Required(t) : Resolve(t, row, c) = NULL

\* "if not a or not b:" of a step
Unresolved(t, row) == \E c \in Required(t) : Resolve(t, row, c) = NULL

\* the parameters of the INSERT, for the columns the row carries
Params(t, row) ==
    [c \in DOMAIN row |-> IF c = "id" THEN generate_uuid
                       ELSE IF c \in FKCols(t) THEN Resolve(t, row, c)
                       ELSE Convert(t, row, c)]

\* Skip, had the step gone on to the next row without recording an error
Skip_Silent(t, row) ==
    /\ Unresolved(t, row)
    /\ errors' = errors
    /\ log' = Append(log, [table |-> t, row |-> row, result |-> "skipped",
                           params |-> Params(t, row)])
    /\ UNCHANGED <<pg, stats, faults, pc, exc>>

\* "if not a or not b: errors.append(...); continue"
Skip(t, row) ==
    /\ Unresolved(t, row)
    /\ errors' = Append(errors, MissingError(t, row))
    /\ log' = Append(log, [table |-> t, row |-> row, result |-> "skipped",
                           params |-> Params(t, row)])
    /\ UNCHANGED <<pg, stats, faults, pc, exc>>

\* Insert, had the step not incremented its counter
Insert_Uncounted(t, row) ==
    /\ ~Unresolved(t, row)
    /\ pg' = [pg EXCEPT ![t] = @ \cup {Params(t, row)}]
    /\ stats' = stats
    /\ log' = Append(log, [table |-> t, row |-> row, result |-> "inserted",
                           params |-> Params(t, row)])
    /\ UNCHANGED <<errors, faults, pc, exc>>

\* the try block: the target takes the INSERT and the counter is incremented
Insert(t, row) ==
    /\ ~Unresolved(t, row)
    /\ pg' = [pg EXCEPT ![t] = @ \cup {Params(t, row)}]
    /\ stats' = [stats EXCEPT ![t] = @ + 1]
    /\ log' = Append(log, [table |-> t, row |-> row, result |-> "inserted",
                           params |-> Params(t, row)])
    /\ UNCHANGED <<errors, faults, pc, exc>>

\* Reject, had the handler re-raised after recording the error
Reject_Raises(t, row) ==
    /\ ~Unresolved(t, row)
    /\ faults < MaxFaults
    /\ faults' = faults + 1
    /\ errors' = Append(errors, InsertError(t, row))
    /\ pg' = pgc
    /\ log' = Append(log, [table |-> t, row |-> row, result |-> "rejected",
                           params |-> Params(t, row)])
    /\ exc' = "step"
    /\ pc' = "finally"
    /\ UNCHANGED stats

\* Reject, had the handler also set the counter back to the rows the target
\* still holds after the rollback
Reject_Uncount(t, row) ==
    /\ ~Unresolved(t, row)
    /\ faults < MaxFaults
    /\ faults' = faults + 1
    /\ errors' = Append(errors, InsertError(t, row))
    /\ pg' = pgc
    /\ log' = Append(log, [table |-> t, row |-> row, result |-> "rejected",
                           params |-> Params(t, row)])
    /\ stats' = [stats EXCEPT ![t] = Cardinality(pgc[t])]
    /\ UNCHANGED <<pc, exc>>

\* Reject, had the handler not called pg_conn.rollback()
Reject_NoRollback(t, row) ==
    /\ ~Unresolved(t, row)
    /\ faults < MaxFaults
    /\ faults' = faults + 1
    /\ errors' = Append(errors, InsertError(t, row))
    /\ pg' = pg
    /\ log' = Append(log, [table |-> t, row |-> row, result |-> "rejected",
                           params |-> Params(t, row)])
    /\ UNCHANGED <<stats, pc, exc>>

\* "except psycopg2.Error": the target rejects the INSERT; the handler records
\* the error rolls back whatever the transaction holds and continues
Reject(t, row) ==
    /\ ~Unresolved(t, row)
    /\ faults < MaxFaults
    /\ faults' = faults + 1
    /\ errors' = Append(errors, InsertError(t, row))
    /\ pg' = pgc
    /\ log' = Append(log, [table |-> t, row |-> row, result |-> "rejected",
                           params |-> Params(t, row)])
    /\ UNCHANGED <<stats, pc, exc>>

\* MigrateRow, had the connection been in autocommit mode: every statement is
\* committed as it is executed
MigrateRow_Autocommit(t) ==
    /\ pc = "loop"
    /\ Steps[step] = t
    /\ rows # <<>>
    /\ rows' = Tail(rows)
    /\ id_map' = Registered(t, Head(rows))
    /\ nextUuid' = IF t \in IdTables THEN nextUuid + 1 ELSE nextUuid
    /\ \/ Skip(t, Head(rows))
       \/ Insert(t, Head(rows))
       \/ Reject(t, Head(rows))
    /\ pgc' = pg'
    /\ UNCHANGED <<answer, no_clear, sqlite_conn, pg_conn, cleared, step,
                   exit_code, summary>>

\* one iteration of the for loop of the step of table t
MigrateRow(t) ==
    /\ pc = "loop"
    /\ Steps[step] = t
    /\ rows # <<>>
    /\ rows' = Tail(rows)
    /\ id_map' = Registered(t, Head(rows))
    /\ nextUuid' = IF t \in IdTables THEN nextUuid + 1 ELSE nextUuid
    /\ \/ Skip(t, Head(rows))
       \/ Insert(t, Head(rows))
       \/ Reject(t, Head(rows))
    /\ UNCHANGED <<answer, no_clear, sqlite_conn, pg_conn, cleared, step, pgc,
                   exit_code, summary>>

migrate_users == MigrateRow("users")

migrate_invite_codes == MigrateRow("invite_codes")

migrate_patterns == MigrateRow("patterns")

migrate_problems == MigrateRow("problems")

migrate_problem_patterns == MigrateRow("problem_patterns")

migrate_sessions == MigrateRow("sessions")

migrate_session_problems == MigrateRow("session_problems")

migrate_attempts == MigrateRow("attempts")

migrate_user_problem_stats == MigrateRow("user_problem_stats")

migrate_user_pattern_stats == MigrateRow("user_pattern_stats")

\* StepCommit, had the step returned without pg_conn.commit()
StepCommit_NoCommit ==
    /\ pc = "loop"
    /\ rows = <<>>
    /\ pgc' = pgc
    /\ IF step < Len(Steps)
         THEN step' = step + 1 /\ pc' = "fetch"
         ELSE step' = step /\ pc' = "summary"
    /\ UNCHANGED <<answer, no_clear, sqlite_conn, pg_conn, cleared, rows, pg,
                   id_map, stats, errors, nextUuid, exc, exit_code, summary, log,
                   faults>>

\* migrate_*: the pg_conn.commit() after the loop, and the return to
\* run_migration, which calls the next step or print_summary
StepCommit ==
    /\ pc = "loop"
    /\ rows = <<>>
    /\ pgc' = pg
    /\ IF step < Len(Steps)
         THEN step' = step + 1 /\ pc' = "fetch"
         ELSE step' = step /\ pc' = "summary"
    /\ UNCHANGED <<answer, no_clear, sqlite_conn, pg_conn, cleared, rows, pg,
                   id_map, stats, errors, nextUuid, exc, exit_code, summary, log,
                   faults>>

\* StepRaises, had "except Exception" of run_migration re-raised without
\* rolling back
StepRaises_NoRollback ==
    /\ pc \in {"fetch", "loop"}
    /\ faults < MaxFaults
    /\ faults' = faults + 1
    /\ exc' = "step"
    /\ pg' = pg
    /\ pc' = "finally"
    /\ UNCHANGED <<answer, no_clear, sqlite_conn, pg_conn, cleared, step, rows,
                   pgc, id_map, stats, errors, nextUuid, exit_code, summary, log>>

\* StepRaises, had "except Exception" of run_migration emptied the target
\* after a failed run
StepRaises_CleansUp ==
    /\ pc \in {"fetch", "loop"}
    /\ faults < MaxFaults
    /\ faults' = faults + 1
    /\ exc' = "step"
    /\ pg' = [t \in Tables |-> {}]
    /\ pgc' = pg'
    /\ pc' = "finally"
    /\ UNCHANGED <<answer, no_clear, sqlite_conn, pg_conn, cleared, step, rows,
                   id_map, stats, errors, nextUuid, exit_code, summary, log>>

\* an exception no handler of the step catches: sqlite3.Error from the SELECT,
\* psycopg2.Error from the rollback() of a handler or from the commit() on a
\* lost connection, any other exception of the loop body; "except Exception"
\* of run_migration rolls back and re-raises
StepRaises ==
    /\ pc \in {"fetch", "loop"}
    /\ faults < MaxFaults
    /\ faults' = faults + 1
    /\ exc' = "step"
    /\ pg' = pgc
    /\ pc' = "finally"
    /\ UNCHANGED <<answer, no_clear, sqlite_conn, pg_conn, cleared, step, rows,
                   pgc, id_map, stats, errors, nextUuid, exit_code, summary, log>>

\* MigrationStats.print_summary, the last statement of the try block
print_summary ==
    /\ pc = "summary"
    /\ summary' = TRUE
    /\ pc' = "finally"
    /\ UNCHANGED <<answer, no_clear, sqlite_conn, pg_conn, cleared, step, rows, pg,
                   pgc, id_map, stats, errors, nextUuid, exc, exit_code, log,
                   faults>>

\* run_migration: "finally" closes both connections; the process then ends,
\* with status 1 when an exception is propagating
Finally ==
    /\ pc = "finally"
    /\ sqlite_conn' = "closed"
    /\ pg_conn' = "closed"
    /\ exit_code' = IF exc = "none" THEN 0 ELSE 1
    /\ pc' = "exit"
    /\ UNCHANGED <<answer, no_clear, cleared, step, rows, pg, pgc, id_map, stats,
                   errors, nextUuid, exc, summary, log, faults>>

Next ==
    \/ Confirm
    \/ connect_sqlite
    \/ connect_postgres
    \/ ClearDelete
    \/ ClearCommit
    \/ ClearFail
    \/ Fetch
    \/ migrate_users
    \/ migrate_invite_codes
    \/ migrate_patterns
    \/ migrate_problems
    \/ migrate_problem_patterns
    \/ migrate_sessions
    \/ migrate_session_problems
    \/ migrate_attempts
    \/ migrate_user_problem_stats
    \/ migrate_user_pattern_stats
    \/ StepCommit
    \/ StepRaises
    \/ print_summary
    \/ Finally

Spec == Init /\ [][Next]_vars

\* the run over a source whose columns hold any value
FieldNext ==
    \/ Confirm
    \/ connect_sqlite
    \/ connect_postgres
    \/ ClearDelete
    \/ ClearCommit
    \/ ClearFail
    \/ FetchFields
    \/ migrate_users
    \/ migrate_invite_codes
    \/ migrate_patterns
    \/ migrate_problems
    \/ migrate_problem_patterns
    \/ migrate_sessions
    \/ migrate_session_problems
    \/ migrate_attempts
    \/ migrate_user_problem_stats
    \/ migrate_user_pattern_stats
    \/ StepCommit
    \/ StepRaises
    \/ print_summary
    \/ Finally

FieldSpec == Init /\ [][FieldNext]_vars
\* ============================================================ properties
\* a row of the loop is being processed by this transition
RowStep == pc = "loop" /\ rows # <<>> /\ rows' = Tail(rows)

Last(q) == q[Len(q)]

Injective(m) == \A a, b \in DOMAIN m : m[a] = m[b] => a = b

\* ------------------------------------------------------------------- C1
C1Order == <<"users", "invite_codes", "patterns", "problems", "problem_patterns",
             "sessions", "session_problems", "attempts", "user_problem_stats",
             "user_pattern_stats">>

\* C1: the table steps run in the order Users, InviteCodes, Patterns, Problems,
\* ProblemPatterns, Sessions, SessionProblems, Attempts, UserProblemStats,
\* UserPatternStats: a step starts only from its predecessor, whose rows are
\* all processed and whose writes are all committed; a step reads its rows
\* when the target holds no uncommitted write, and writes its own table only.
C1_StepsInOrder ==
    [][/\ step' # step =>
            /\ step' = step + 1
            /\ step' \in 1..Len(C1Order)
            /\ Steps[step'] = C1Order[step']
            /\ step > 0 => rows = <<>>
            /\ pg' = pgc'
       /\ (pc = "fetch" /\ pc' = "loop") => pg = pgc
       /\ RowStep => \A t \in Tables : pg'[t] # pg[t] => t = C1Order[step]]_vars

\* C1 witness: the last step starts after a step that had an insert rejected
C1_Witness ==
    /\ pc = "fetch"
    /\ step = Len(Steps)
    /\ \E i \in DOMAIN log : log[i].result = "rejected"

\* ------------------------------------------------------------------- C2
\* C2: every reference a row of the target carries (required, or optional and
\* not NULL) is the id of a row present in the parent table of the target.
C2_ReferentialIntegrity ==
    \A t \in Tables : \A r \in pg[t] : \A c \in FKCols(t) :
        (c \in Required(t) \/ r[c] # NULL) =>
            \E q \in pg[Parent(c)] : q["id"] = r[c]

\* ------------------------------------------------------------------- C3
\* C3: an id map holds a legacy id only if the insert of that row succeeded.
C3_MappedOnlyIfInserted ==
    \A t \in IdTables : \A k \in DOMAIN id_map[t] :
        \E i \in DOMAIN log :
            /\ log[i].table = t
            /\ log[i].row["id"] = k
            /\ log[i].result = "inserted"

\* ------------------------------------------------------------------- C4
\* the parent row with legacy id k of table t was written, with new id n
Migrated(t, k, n) ==
    \E i \in DOMAIN log :
        /\ log[i].table = t
        /\ log[i].result = "inserted"
        /\ log[i].row["id"] = k
        /\ log[i].params["id"] = n

\* C4: a dependent row written to the target carries, in each foreign-key
\* column, exactly the new id N its successfully migrated parent row was
\* written with.
C4_SameNewId ==
    [][RowStep =>
        \A r \in pg'[Current] \ pg[Current] : \A c \in FKCols(Current) :
            \A i \in DOMAIN log :
                (/\ log[i].table = Parent(c)
                 /\ log[i].result = "inserted"
                 /\ log[i].row["id"] = Head(rows)[c])
                    => r[c] = log[i].params["id"]]_vars

\* C4 witness: a session was written for user 1 although the insert of
\* user 2 was rejected
C4_Witness ==
    /\ log # <<>>
    /\ Last(log).table = "sessions"
    /\ Last(log).result = "inserted"
    /\ Last(log).row["user_id"] = 1
    /\ Migrated("users", 1, Last(log).params["user_id"])
    /\ \E k \in DOMAIN log : log[k].table = "users" /\ log[k].result = "rejected"

\* ------------------------------------------------------------------- C5
\* the row at the head of the loop has a required reference without an entry
\* in the id map of the parent table
NoEntry(t, row) == \E c \in Required(t) : row[c] \notin DOMAIN id_map[Parent(c)]

\* the error e names the row: its legacy id, or its pair of keys where the
\* table has no id column
NamesRow(e, t, row) ==
    /\ e.table = t
    /\ IF "id" \in DOMAIN row
         THEN e.key = <<row["id"]>>
         ELSE {e.key[i] : i \in DOMAIN e.key} = {row[c] : c \in Required(t)}

\* C5: a row with a required reference that has no entry in the id map is not
\* inserted, does not count as a success and appends exactly one error that
\* names the row; a row that is written carries in every required column the
\* new id mapped to its reference, never NULL or another value.
C5_UnresolvedDropped ==
    [][RowStep =>
        /\ NoEntry(Current, Head(rows)) =>
              /\ pg' = pg
              /\ stats' = stats
              /\ Len(errors') = Len(errors) + 1
              /\ SubSeq(errors', 1, Len(errors)) = errors
              /\ NamesRow(Last(errors'), Current, Head(rows))
        /\ \A r \in pg'[Current] \ pg[Current] : \A c \in Required(Current) :
              /\ r[c] # NULL
              /\ Head(rows)[c] \in DOMAIN id_map[Parent(c)]
              /\ r[c] = id_map[Parent(c)][Head(rows)[c]]]_vars

\* C5 witness: a row with one resolving and one dangling required reference
\* was dropped
C5_Witness ==
    /\ log # <<>>
    /\ Last(log).result = "skipped"
    /\ \E c, d \in Required(Last(log).table) :
          /\ Last(log).row[c] = Missing
          /\ Last(log).row[d] # Missing
    /\ Last(errors).kind = "missing"

\* ------------------------------------------------------------------- C6
\* an attempt whose user and problem resolve and whose session reference is
\* the legacy id of no source session
DanglingSession(row) ==
    /\ row["user_id"] \in DOMAIN id_map["users"]
    /\ row["problem_id"] \in DOMAIN id_map["problems"]
    /\ row["session_id"] # NULL
    /\ row["session_id"] \notin DOMAIN id_map["sessions"]

\* C6 as stated: such an attempt is dropped: nothing is inserted, the attempts
\* counter stays and exactly one error naming the attempt is appended.
C6_AttemptDropped ==
    [][(RowStep /\ Current = "attempts" /\ DanglingSession(Head(rows))) =>
        /\ pg'["attempts"] \subseteq pg["attempts"]
        /\ stats' = stats
        /\ Len(errors') = Len(errors) + 1
        /\ Last(errors').key = <<Head(rows)["id"]>>]_vars

\* C6 as amended: such an attempt is not dropped for the missing session: its
\* insert is attempted with a NULL session reference; when the target takes
\* it, the attempts counter is incremented and no error is appended; an error
\* is appended only when the target rejects the insert.
C6_AttemptKept ==
    [][(RowStep /\ Current = "attempts" /\ DanglingSession(Head(rows))) =>
        \/ /\ \E r \in pg'["attempts"] \ pg["attempts"] :
                /\ r["session_id"] = NULL
                /\ r["user_id"] = id_map["users"][Head(rows)["user_id"]]
                /\ r["problem_id"] = id_map["problems"][Head(rows)["problem_id"]]
           /\ stats'["attempts"] = stats["attempts"] + 1
           /\ errors' = errors
        \/ /\ pg' = pgc
           /\ stats' = stats
           /\ errors' = Append(errors, [table |-> "attempts", kind |-> "insert",
                                        key |-> <<Head(rows)["id"]>>])]_vars

\* C6 witness: an attempt with a dangling session reference was inserted
C6_Witness ==
    /\ log # <<>>
    /\ Last(log).table = "attempts"
    /\ Last(log).row["session_id"] = Missing
    /\ Last(log).result = "inserted"
    /\ Last(log).params \in pg["attempts"]

\* ------------------------------------------------------------------- C7
\* C7: an entry of an id map, once made, is neither changed nor removed, and
\* no two legacy ids of one table are mapped to the same new id.
C7_WriteOnce ==
    [][\A t \in IdTables :
        /\ \A k \in DOMAIN id_map[t] :
              k \in DOMAIN id_map'[t] /\ id_map'[t][k] = id_map[t][k]
        /\ Injective(id_map'[t])]_vars

\* C7 witness: every id map holds all the rows of its table
C7_Witness ==
    /\ pc = "summary"
    /\ \A t \in IdTables : DOMAIN id_map[t] = 1..NumRows

\* ------------------------------------------------------------------- C8
\* C8: a transition that records a row error leaves the run in the loop of the
\* same step with no exception raised and only that row consumed; the try
\* block of run_migration is left without an exception only by way of the
\* summary, after every row of all ten tables has been processed.
C8_RowErrorsDoNotStop ==
    [][/\ Len(errors') > Len(errors) =>
            /\ pc = "loop" /\ pc' = "loop"
            /\ step' = step
            /\ exc' = "none"
            /\ rows' = Tail(rows)
       /\ (pc' = "finally" /\ exc' = "none") =>
            /\ summary'
            /\ step = Len(Steps)
            /\ Len(log) = Len(Steps) * NumRows]_vars

\* C8 witness: the summary is printed after a dropped row and a rejected insert
C8_Witness ==
    /\ summary
    /\ \E i, j \in DOMAIN errors : errors[i].kind = "missing" /\ errors[j].kind = "insert"

\* ------------------------------------------------------------------- C9
\* C9: when clearing fails, the target's committed contents are those before
\* the run, nothing uncommitted is left, no step has run and no row was read,
\* and the id maps, the counters and the error list are empty.
C9_ClearFailureAborts ==
    exc = "clear" =>
        /\ pgc = PreExisting
        /\ pg = pgc
        /\ step = 0
        /\ rows = <<>>
        /\ log = <<>>
        /\ errors = <<>>
        /\ \A t \in IdTables : id_map[t] = EmptyMap
        /\ \A t \in Tables : stats[t] = 0
        /\ ~summary

\* C9 witness: the run ended after clearing failed with some tables deleted
C9_Witness ==
    /\ exc = "clear"
    /\ cleared > 0
    /\ pc = "exit"

\* ------------------------------------------------------------------ C10
\* C10: with the skip-clear flag no target table is truncated and the rows
\* present before the run stay; without it every table is truncated before
\* the first step.
C10_SkipClearHonoured ==
    /\ no_clear => cleared = 0 /\ \A t \in Tables : OldRow(t) \in pg[t]
    /\ (~no_clear /\ step >= 1) => \A t \in Tables : OldRow(t) \notin pgc[t]

\* ------------------------------------------------------------------ C11
\* C11: when the process ends, on any path, no connection that was opened is
\* still open.
C11_ConnectionsClosed ==
    pc = "exit" => sqlite_conn # "open" /\ pg_conn # "open"

\* ------------------------------------------------------------------ C12
\* C12: the transition on which a fatal failure occurs (clearing fails, or a
\* step fails otherwise than by a rejected insert) rolls the uncommitted writes
\* back and goes straight to the closing of the connections; from then on no
\* step is started, no row is read, nothing is written or committed, and no
\* counter, id map or error entry changes.
C12_FatalUnwinds ==
    [][/\ (exc = "none" /\ exc' # "none") =>
            /\ pg' = pgc
            /\ pc' = "finally"
       /\ exc' # "none" =>
            /\ pgc' = pgc
            /\ pg' = pgc
            /\ step' = step
            /\ rows' = rows
            /\ log' = log
            /\ stats' = stats
            /\ errors' = errors
            /\ id_map' = id_map
            /\ ~summary'
            /\ pc' \in {"finally", "exit"}]_vars

\* C12 witness: a step failed fatally in the middle of its loop, right after an
\* accepted insert: the insert is gone and the rest of the rows was never read
C12_Witness ==
    /\ exc = "step"
    /\ pc = "exit"
    /\ rows # <<>>
    /\ log # <<>>
    /\ Last(log).table = Current
    /\ Last(log).result = "inserted"
    /\ Last(log).params \notin pg[Current]
    /\ step < Len(Steps)

\* ------------------------------------------------------------------ C13
\* the run was cancelled at the prompt
Cancelled == answer \notin {"yes", "Yes", "YES"}

\* a connection could not be established
ConnectFailed == ~Cancelled /\ "unopened" \in {sqlite_conn, pg_conn}

\* C13: the process ends with status 0 exactly when no fatal error occurred,
\* that is when the run was cancelled at the prompt or reached its summary
\* (with or without row errors), and with a non-zero status when a connection
\* could not be established, clearing failed or an exception escaped a step.
C13_ExitStatus ==
    pc = "exit" =>
        /\ exit_code = 0 <=> (Cancelled \/ summary)
        /\ (ConnectFailed \/ exc \in {"clear", "step"}) <=> exit_code # 0
        /\ (Cancelled \/ summary) => ~ConnectFailed /\ exc = "none"

\* C13 witness: a run with a dropped row and a rejected insert ended with
\* status 0
C13_Witness ==
    /\ pc = "exit"
    /\ exit_code = 0
    /\ \E i, j \in DOMAIN errors : errors[i].kind = "insert" /\ errors[j].kind = "missing"

\* ------------------------------------------------------------------ C14
\* C14: as long as no answer equal to "yes" (in any letter case) was given at
\* the prompt, no connection is opened, no table is cleared and no row is
\* read or written; an answer other than "yes" ends the run in that state.
C14_NothingBeforeConfirmation ==
    Cancelled =>
        /\ sqlite_conn = "unopened"
        /\ pg_conn = "unopened"
        /\ cleared = 0
        /\ step = 0
        /\ pg = PreExisting
        /\ pgc = PreExisting
        /\ rows = <<>>
        /\ log = <<>>
        /\ pc \in {"confirm", "exit"}

\* C14 witness: the run ended on the answer "no"
C14_Witness ==
    /\ answer = "no"
    /\ pc = "exit"
    /\ pg = PreExisting

\* ------------------------------------------------------------------ C15
\* the row of this transition was handed to the target and accepted
RowInserted == RowStep /\ Last(log').result = "inserted"

\* C15 as stated: whenever a row is written, each of its timestamp columns
\* that is null or empty in the source is written as absent, and no such
\* column makes the step drop the row.
C15_BlankTimestampAbsent ==
    [][RowStep =>
        \A c \in Timestamps(Current) : Falsy(Head(rows)[c]) =>
            /\ Last(log').result # "skipped"
            /\ RowInserted => Last(log').params[c] = None]_vars

\* C15, amended: a null or empty source timestamp never makes the step drop
\* the row or record an error of its own; when the row is written, created_at
\* (users, invite codes, patterns, problems, sessions) and performed_at
\* (attempts) carry the time of the run, and every other timestamp column is
\* absent.
C15_BlankTimestampDefaulted ==
    [][RowStep =>
        \A c \in Timestamps(Current) : Falsy(Head(rows)[c]) =>
            /\ Last(log').result # "skipped"
            /\ Len(errors') > Len(errors) => Last(log').result = "rejected"
            /\ RowInserted =>
                /\ Last(log').params \in pg'[Current]
                /\ stats'[Current] = stats[Current] + 1
                /\ errors' = errors
                /\ Last(log').params[c] =
                     IF c = "created_at" \/ c = "performed_at" THEN utcnow ELSE None]_vars

\* C15 witness: an invite code with a null created_at and an empty used_at was
\* written
C15_Witness ==
    /\ log # <<>>
    /\ Last(log).table = "invite_codes"
    /\ Last(log).result = "inserted"
    /\ Last(log).row["created_at"] = None
    /\ Last(log).row["used_at"] = ""
    /\ Last(log).params \in pg["invite_codes"]
    /\ Last(log).params["created_at"] = utcnow
    /\ Last(log).params["used_at"] = None

\* ------------------------------------------------------------------ C16
\* the column of a table that has a default, and the default
DefaultOf(t) ==
    CASE t = "users"    -> <<"role", "user">>
      [] t = "attempts" -> <<"status", "completed">>

\* C16: a user whose role, or an attempt whose status, is absent or blank in
\* the source is written with the role "user", or the status "completed"; any
\* other value is written unchanged; the blank value does not make the step
\* drop the row, and the row the target accepts is counted and adds no error.
C16_DefaultValues ==
    [][(RowStep /\ Current \in {"users", "attempts"}) =>
        LET c   == DefaultOf(Current)[1]
            src == Head(rows)[c]
        IN  /\ src \in {None, ""} => Last(log').result # "skipped"
            /\ Len(errors') > Len(errors) => Last(log').result # "inserted"
            /\ RowInserted =>
                /\ Last(log').params[c] =
                     IF src \in {None, ""} THEN DefaultOf(Current)[2] ELSE src
                /\ Last(log').params \in pg'[Current]
                /\ stats'[Current] = stats[Current] + 1
                /\ errors' = errors]_vars

\* C16 witness: of two users the second had a blank role; the users step wrote
\* and committed two rows, the second with role "user", counted two and
\* recorded no error
C16_Witness ==
    /\ step = 2
    /\ pc = "fetch"
    /\ Len(log) = 2
    /\ log[2].row["id"] = 2
    /\ log[2].row["role"] = ""
    /\ log[1].row["role"] = "admin"
    /\ pgc["users"] = {log[1].params, log[2].params}
    /\ log[1].params["role"] = "admin"
    /\ log[2].params["role"] = "user"
    /\ stats["users"] = 2
    /\ errors = <<>>

\* ------------------------------------------------------------------ C17
\* the target row that carries the position and the flag of a source row of
\* session_problems, under the new ids of its session and problem
SameTriple(row) ==
    [session_id   |-> id_map["sessions"][row["session_id"]],
     problem_id   |-> id_map["problems"][row["problem_id"]],
     order_index  |-> row["order_index"],
     is_completed |-> row["is_completed"] = 1]

SessionProblemsLog == {i \in DOMAIN log : log[i].table = "session_problems"}

\* C17: every session_problems row written carries the order index and the
\* completion flag of the source row of its (session, problem) pair, and when
\* the step commits without a rejected insert the target holds, for every
\* session, exactly the source's (problem, order index, flag) triples.
C17_OrderAndFlagKept ==
    [][(pc = "loop" /\ Current = "session_problems") =>
        /\ RowInserted =>
            /\ Last(log').params = SameTriple(Head(rows))
            /\ Last(log').params \in pg'["session_problems"]
        /\ (pc' = "fetch" /\ \A i \in SessionProblemsLog : log[i].result = "inserted") =>
            pgc'["session_problems"] = {SameTriple(log[i].row) : i \in SessionProblemsLog}]_vars

\* C17 witness: a session whose second problem comes before its first by
\* order index (0 and 1) and is the completed one was written and committed
C17_Witness ==
    /\ step = 8
    /\ pc = "fetch"
    /\ \E a, b \in pgc["session_problems"] :
        /\ a["session_id"] = b["session_id"]
        /\ a["problem_id"] = id_map["problems"][1]
        /\ b["problem_id"] = id_map["problems"][2]
        /\ a["order_index"] = 1 /\ b["order_index"] = 0
        /\ ~a["is_completed"] /\ b["is_completed"]
    /\ \E i, j \in SessionProblemsLog :
        /\ i < j
        /\ log[i].row["problem_id"] = 2
        /\ log[j].row["problem_id"] = 1

\* ------------------------------------------------------------------ C18
\* the legacy ids of the source rows of a table with an id column
SourceIds(t) == {log[i].row["id"] : i \in {j \in DOMAIN log : log[j].table = t}}

\* C18: when a full run prints its summary, every success counter and the
\* number of errors are determined by the source rows and by the rows the
\* target rejected alone: the counter of a table is the number of its rows
\* that resolve (each required reference is the legacy id of a row of the
\* source's parent table) and were not rejected, the number of errors is the
\* number of all other rows. Neither the generated ids nor the order in which
\* a table is read enter, so two runs over the same source whose targets
\* reject the same rows end with the same counts.
C18_CountsDetermined ==
    [][(pc = "summary" /\ summary') =>
        LET ids         == [t \in IdTables |-> SourceIds(t)]
            Resolves(i) == \A c \in Required(log[i].table) :
                               log[i].row[c] \in ids[Parent(c)]
            Rejected(i) == log[i].result = "rejected"
        IN  /\ \A t \in Tables :
                stats'[t] = Cardinality({i \in DOMAIN log :
                                log[i].table = t /\ Resolves(i) /\ ~Rejected(i)})
            /\ Len(errors') =
                 Cardinality({i \in DOMAIN log : ~Resolves(i) \/ Rejected(i)})]_vars

\* C18 witness: a full run in which a table read without ORDER BY came in
\* another order than its key order, and an insert into it was rejected
C18_Witness ==
    /\ summary
    /\ \E i, j \in DOMAIN log :
        /\ i < j
        /\ log[i].table = "problem_patterns"
        /\ log[j].table = "problem_patterns"
        /\ log[i].row["problem_id"] > log[j].row["problem_id"]
        /\ "rejected" \in {log[i].result, log[j].result}

\* ------------------------------------------------------------------ C19
\* the rows of the running step that were inserted before a row the target
\* rejected
InsertedBeforeReject ==
    {i \in DOMAIN log :
        /\ log[i].table = Current
        /\ log[i].result = "inserted"
        /\ \E j \in DOMAIN log :
            j > i /\ log[j].table = Current /\ log[j].result = "rejected"}

\* C19: when the target rejects an insert, the rollback leaves the target as
\* last committed, so that no row inserted earlier in the same step is in it
\* any more; the rejected row adds exactly one error and the loop goes on; and
\* after the step's commit none of those earlier rows is in the target.
C19_RejectDiscardsEarlierRows ==
    [][/\ (RowStep /\ Last(log').result = "rejected") =>
            /\ pg' = pgc
            /\ pgc' = pgc
            /\ \A i \in DOMAIN log :
                (log[i].table = Current /\ log[i].result = "inserted") =>
                    log[i].params \notin pg'[Current]
            /\ errors' = Append(errors, InsertError(Current, Head(rows)))
            /\ pc' = "loop"
            /\ exc' = "none"
       /\ (pc = "loop" /\ pc' \in {"fetch", "summary"}) =>
            \A i \in InsertedBeforeReject : log[i].params \notin pgc'[Current]]_vars

\* C19 witness: the users step inserted user 1, had user 2 rejected and
\* committed: the target holds no user, the counter says 1, one error
C19_Witness ==
    /\ step = 2
    /\ pc = "fetch"
    /\ Len(log) = 2
    /\ log[1].result = "inserted"
    /\ log[2].result = "rejected"
    /\ pgc["users"] = {}
    /\ stats["users"] = 1
    /\ Len(errors) = 1

\* ------------------------------------------------------------------ C20
\* the rows of the running step processed before this one include a rejected one
RejectedEarlier ==
    \E i \in DOMAIN log : log[i].table = Current /\ log[i].result = "rejected"

\* the rows of the running step inserted since its last rejected row
InsertedSinceReject ==
    {i \in DOMAIN log :
        /\ log[i].table = Current
        /\ log[i].result = "inserted"
        /\ \E j \in DOMAIN log :
            j < i /\ log[j].table = Current /\ log[j].result = "rejected"
        /\ \A j \in DOMAIN log :
            (j > i /\ log[j].table = Current) => log[j].result # "rejected"}

\* C20 as stated: after a rejected insert the step commits row by row: a row
\* inserted later in the step is committed by the transition that inserts it,
\* and a later rejected insert leaves the rows inserted since in the target.
C20_PerRowCommits ==
    [][(RowStep /\ RejectedEarlier) =>
        /\ RowInserted => Last(log').params \in pgc'[Current]
        /\ Last(log').result = "rejected" =>
            \A i \in InsertedSinceReject : log[i].params \in pg'[Current]]_vars

\* C20, amended: after a rejected insert the step goes on without a commit of
\* its own per row: a row inserted later stays uncommitted until the commit
\* that ends the step, and a second rejected insert of the step discards the
\* rows inserted between the two failures, which stay counted.
C20_NoPerRowCommits ==
    [][(RowStep /\ RejectedEarlier) =>
        /\ pgc' = pgc
        /\ RowInserted =>
            /\ Last(log').params \in pg'[Current]
            /\ Last(log').params \notin pgc'[Current]
        /\ Last(log').result = "rejected" =>
            /\ \A i \in InsertedSinceReject : log[i].params \notin pg'[Current]
            /\ stats' = stats]_vars

\* C20 witness: in the patterns step the first pattern was rejected, the second
\* inserted and the third rejected; after the step's commit the target holds
\* no pattern and the counter says 1
C20_Witness ==
    /\ step = 4
    /\ pc = "fetch"
    /\ \E i \in 1..(Len(log) - 2) :
        /\ log[i].table = "patterns"
        /\ log[i].result = "rejected"
        /\ log[i + 1].table = "patterns"
        /\ log[i + 1].result = "inserted"
        /\ log[i + 2].table = "patterns"
        /\ log[i + 2].result = "rejected"
    /\ pgc["patterns"] = {}
    /\ stats["patterns"] = 1

\* ------------------------------------------------------------------ C21
\* C21: every step processes its source rows in ascending key order: the
\* rows a step has fetched and still has to process are sorted by the id of
\* the table, or by its pair of references where it has no id.
C21_AscendingKeyOrder == pc = "loop" => InKeyOrder(rows, Current)

\* ------------------------------------------------------------------ C22
\* the tables with a column that references table t
Referencing(t) == {u \in Tables : \E c \in FKCols(u) : Parent(c) = t}

\* C22: the pre-clear deletes the rows of one table at a time, a table only
\* when every table that references it is already empty, and commits nothing
\* on the way; the Users step starts only from the commit that follows the
\* tenth DELETE, with all ten tables committed empty, and no source row is
\* read or processed before that.
C22_ClearInReverseOrder ==
    [][/\ cleared' # cleared =>
            /\ cleared' = cleared + 1
            /\ pg'[ClearTables[cleared']] = {}
            /\ \A u \in Referencing(ClearTables[cleared']) : pg[u] = {}
            /\ pgc' = pgc
       /\ pc = "clear" => pgc = PreExisting
       /\ (step = 0 /\ step' # 0) =>
            /\ step' = 1
            /\ cleared = Len(ClearTables)
            /\ pg' = pgc'
            /\ \A t \in Tables : pgc'[t] = {}
       /\ step = 0 => rows' = <<>> /\ log' = <<>>]_vars

\* C22 witness: the Users step is about to read its rows, after ten DELETE
\* statements and their commit emptied a target that held rows
C22_Witness ==
    /\ pc = "fetch"
    /\ step = 1
    /\ cleared = Len(ClearTables)
    /\ \A t \in Tables : pgc[t] = {} /\ PreExisting[t] # {}

\* ------------------------------------------------------------------ C23
\* the running step ends: its loop is over and it commits
StepEnds == pc = "loop" /\ rows = <<>> /\ pc' \in {"fetch", "summary"}

\* the log entries of the rows of table t
LogOf(t) == {i \in DOMAIN log : log[i].table = t}

\* C23: when a step ends, the counter of its table is at least the number of
\* rows of the table that are committed in the target; it is that number when
\* no insert of the step was rejected, and it is larger when an insert of the
\* step was rejected after another insert of the step had succeeded.
C23_CounterCoversCommitted ==
    [][StepEnds =>
        LET t         == Current
            committed == Cardinality(pgc'[t])
        IN  /\ stats'[t] >= committed
            /\ (\A i \in LogOf(t) : log[i].result # "rejected")
                   => stats'[t] = committed
            /\ (\E i, j \in LogOf(t) : /\ i < j
                                       /\ log[i].result = "inserted"
                                       /\ log[j].result = "rejected")
                   => stats'[t] > committed]_vars

\* C23 witness: the Users step has ended; its first row was inserted and its
\* second rejected, the counter is 1 and no user is committed
C23_Witness ==
    /\ pc = "fetch"
    /\ step = 2
    /\ \E i, j \in LogOf("users") : /\ i < j
                                    /\ log[i].result = "inserted"
                                    /\ log[j].result = "rejected"
    /\ stats["users"] = 1
    /\ pgc["users"] = {}

\* ------------------------------------------------------------------ C24
\* the errors a step of table t has recorded
ErrorsOf(t) == {i \in DOMAIN errors : errors[i].table = t}

\* the success counter of the running step went up by one and no other did
Counted == stats' = [stats EXCEPT ![Current] = @ + 1]

\* one entry was appended to the error list
Recorded == Len(errors') = Len(errors) + 1 /\ SubSeq(errors', 1, Len(errors)) = errors

\* C24: processing a source row either adds one to the counter of its table
\* and leaves the error list alone, or appends one entry to the error list and
\* leaves the counters alone; no transition lowers a counter or removes or
\* changes an entry of the error list; so when a step ends, the counter of its
\* table and the errors the step recorded add up to the rows of the source
\* table.
C24_RowAccountedOnce ==
    [][/\ RowStep => \/ Counted /\ errors' = errors
                     \/ Recorded /\ stats' = stats
       /\ \A t \in Tables : stats'[t] >= stats[t]
       /\ Len(errors') >= Len(errors)
       /\ SubSeq(errors', 1, Len(errors)) = errors
       /\ StepEnds => stats'[Current] + Cardinality(ErrorsOf(Current)) = NumRows]_vars

\* C24 witness: a full run in which one row was dropped for a reference that
\* did not resolve, another was rejected by the target and others were
\* inserted
C24_Witness ==
    /\ summary
    /\ Len(errors) = 2
    /\ \E i, j, k \in DOMAIN log : /\ log[i].result = "skipped"
                                   /\ log[j].result = "rejected"
                                   /\ log[k].result = "inserted"

\* ------------------------------------------------------------------ C25
\* the creator of an invite code is a legacy id without an entry in the id map
\* of the users
UnmappedCreator(row) ==
    /\ row["created_by_user_id"] # NULL
    /\ row["created_by_user_id"] \notin DOMAIN id_map["users"]

\* C25: an invite code whose creator has no entry in the id map of the users
\* is not dropped: no "missing mapping" error is ever recorded for it and its
\* insert is issued with a NULL creator; when the target takes the insert, the
\* row is in the target under the new id with a NULL creator, the counter of
\* the invite codes is incremented and no error is recorded; an error is
\* recorded only when the target itself rejects the insert.
C25_InviteCodeKept ==
    [][(RowStep /\ Current = "invite_codes" /\ UnmappedCreator(Head(rows))) =>
        \/ /\ \E r \in pg'["invite_codes"] \ pg["invite_codes"] :
                /\ r["created_by_user_id"] = NULL
                /\ r["id"] = id_map'["invite_codes"][Head(rows)["id"]]
           /\ stats' = [stats EXCEPT !["invite_codes"] = @ + 1]
           /\ errors' = errors
        \/ /\ pg' = pgc
           /\ stats' = stats
           /\ errors' = Append(errors, [table |-> "invite_codes",
                                        kind |-> "insert", key |-> <<>>])]_vars

\* C25 witness: an invite code whose creator is no user of the source was
\* inserted with a NULL creator and counted, and no error was recorded
C25_Witness ==
    /\ log # <<>>
    /\ Last(log).table = "invite_codes"
    /\ Last(log).row["created_by_user_id"] = Missing
    /\ Last(log).result = "inserted"
    /\ Last(log).params \in pg["invite_codes"]
    /\ Last(log).params["created_by_user_id"] = NULL
    /\ stats["invite_codes"] >= 1
    /\ errors = <<>>

\* ------------------------------------------------------------------ C26
\* the tables of the steps before the running one
Earlier == {Steps[n] : n \in 1..(step - 1)}

\* the running step fails: the target rejects an insert, or an exception
\* escapes the step
StepFails ==
    \/ RowStep /\ Last(log').result = "rejected"
    \/ exc = "none" /\ exc' = "step"

\* C26: while a step runs, the tables of the earlier steps hold their
\* committed rows and no transition changes them, in the transaction or as
\* committed; the rollback after a rejected insert and the rollback after a
\* fatal error of the step leave everything committed as it was and take the
\* transaction back to it, so that nothing of the step's own table is left;
\* a run that aborted in a step holds what the earlier steps committed and no
\* row of that step.
C26_EarlierStepsKept ==
    [][step >= 1 =>
        /\ \A u \in Earlier : /\ pg[u] = pgc[u]
                              /\ pg'[u] = pg[u]
                              /\ pgc'[u] = pgc[u]
        /\ StepFails => /\ pgc' = pgc
                        /\ pg' = pgc
                        /\ pg'[Current] = {}
        /\ exc = "step" => pg = pgc /\ pgc[Current] = {}]_vars

\* C26 witness: a run aborted in a later step, after that step had a row
\* inserted and a row rejected; the users are committed, the table of the
\* step is empty
C26_Witness ==
    /\ pc = "exit"
    /\ exc = "step"
    /\ step >= 2
    /\ pgc["users"] # {}
    /\ \E i, j \in LogOf(Steps[step]) : /\ log[i].result = "inserted"
                                        /\ log[j].result = "rejected"
    /\ pg = pgc
    /\ pgc[Steps[step]] = {}
====
